---- MODULE Spec2Model ----
(***************************************************************************)
(* A model of the Body Garage user-account server (src/index.js): the      *)
(* startup sequence, the request router, the seven route handlers and the  *)
(* MySQL `user` table they operate on.                                     *)
(*                                                                         *)
(* Every `await` of a handler is a point where other requests may run, so  *)
(* each handler is cut into one action per awaited store / bcrypt call.    *)
(* The body read (parseBody) touches no shared state and is folded into    *)
(* the step that accepts the request.                                      *)
(***************************************************************************)
EXTENDS Integers, Sequences, FiniteSets, TLC

\* ------------------------------------------------------------------ bounds
NumSlots == 2       \* requests that may be in flight at the same time
MaxRequests == 3    \* requests accepted in one run of the server
MaxSalt == 2        \* distinct salts bcrypt may draw

\* ------------------------------------------------------- program constants
SaltRounds == 12            \* bcrypt.hash(password, 12)
MinPasswordLength == 6      \* password.length < 6

Slots == 1..NumSlots
Salts == 1..MaxSalt

\* ------------------------------------------------------------ input values
\* A field that is undefined, null or "" takes the same (falsy) branch of
\* every `!x` test in the handlers; "" stands for all three.  For the numeric
\* id, 0 stands for a missing (falsy) id.
\* Names, e-mails and passwords are strings that fit their columns, and the
\* store answers every statement: it fails one only for a missing table or a
\* duplicate name.
Names == {"", "alice", "bob"}
Passwords == {"", "wrong", "secret1"}
RegisterEmails == {"", "a@x"}
NewEmails == {"", "b@x"}
Ids == 0..(MaxRequests - 1)   \* 0, and every id an earlier request can have been given
Methods == {"GET", "POST", "PUT", "DELETE", "OPTIONS"}
Paths == {"/", "/users", "/user", "/nope"}

NULL == "NULL"               \* SQL NULL in the email column
Malformed == [malformed |-> TRUE]   \* a request body JSON.parse rejects
NoBody == [unread |-> TRUE]         \* the body of a request whose handler reads none
None == [unset |-> TRUE]            \* an unset local / an unanswered request

LandingHtml == "<html>Body Garage</html>"

VARIABLES
  main,         \* position of the startup IIFE
  connected,    \* testConnection obtained a connection
  tableExists,  \* the `user` table exists in the database
  user,         \* rows of the `user` table
  autoInc,      \* the table's AUTO_INCREMENT counter
  pc,           \* per slot: position of the handler serving it
  req,          \* per slot: the request (method, path, parsed body)
  loc,          \* per slot: the handler's local across awaits
  res,          \* per slot: the response sent
  served,       \* number of requests accepted so far
  hist,         \* per slot, history: what the request found on arrival
  scenario      \* history: the client's progress through Script

vars ==
  <<main, connected, tableExists, user, autoInc, pc, req, loc, res, served, hist, scenario>>
storeVars == <<tableExists, user, autoInc>>
startVars == <<main, connected>>

\* ------------------------------------------------------------------ bcrypt
\* bcrypt.hash: a salted one-way digest; the output embeds cost and salt.
hash(password, salt) ==
  [cost |-> SaltRounds, salt |-> salt, digest |-> <<SaltRounds, salt, password>>]

\* compare, were it to recompute with a cost other than the one in the hash.
compareOtherCost(password, hashed) ==
  hashed.digest = <<SaltRounds - 2, hashed.salt, password>>

\* bcrypt.compare: recompute with the salt and cost embedded in the hash.
compare(password, hashed) ==
  hashed.digest = <<hashed.cost, hashed.salt, password>>

\* --------------------------------------------------------------- the store
\* SELECT id FROM user WHERE name = ?
SelectIdByName(name) == {[id |-> u.id] : u \in {v \in user : v.name = name}}

\* SELECT id, password FROM user WHERE name = ?
SelectIdPasswordByName(name) ==
  {[id |-> u.id, password |-> u.password] : u \in {v \in user : v.name = name}}

\* SELECT id, name, email, created_at FROM user
SelectAll ==
  {[id |-> u.id, name |-> u.name, email |-> u.email, created_at |-> u.created_at] : u \in user}

\* The UNIQUE constraint on name: the INSERT is rejected with ER_DUP_ENTRY.
DuplicateEntry(name) == \E u \in user : u.name = name

\* INSERT INTO user (name, password, email) VALUES (?, ?, ?)
\* id is the AUTO_INCREMENT value; created_at defaults to the store's clock,
\* which is read as the ordinal of the statement.
InsertedRow(name, hashedPassword, email) ==
  [id |-> autoInc, name |-> name, password |-> hashedPassword,
   email |-> email, created_at |-> autoInc]

\* The DELETE, were its WHERE clause lost.
AfterDeleteNoWhere(id) == {}

\* DELETE FROM user WHERE id = ?
AfterDelete(id) == {u \in user : u.id # id}

\* The UPDATE, were its WHERE clause lost.
AfterUpdateNoWhere(id, email) == {[u EXCEPT !.email = email] : u \in user}

\* UPDATE user SET email = ? WHERE id = ?
AfterUpdate(id, email) ==
  {IF u.id = id THEN [u EXCEPT !.email = email] ELSE u : u \in user}

\* result.affectedRows of a DELETE or UPDATE ... WHERE id = ? (rows matched)
AffectedRows(id) == Cardinality({u \in user : u.id = id})

\* ------------------------------------------------------------ the response
\* The body is kept as the value handed to JSON.stringify.
sendResponse(statusCode, data, contentType) ==
  [status |-> statusCode, contentType |-> contentType, body |-> data]

Json(statusCode, data) == sendResponse(statusCode, data, "application/json")

InternalError == Json(500, [success |-> FALSE, error |-> "Internal server error"])

\* --------------------------------------------------------------- the router
routeKeys ==
  {<<"OPTIONS", "*">>, <<"POST", "/register">>, <<"POST", "/login">>,
   <<"GET", "/users">>, <<"DELETE", "/user">>, <<"PUT", "/user">>, <<"GET", "/">>}

\* The lookup, were the method wildcard left out.
RouteNoWildcard(method, path) ==
  IF <<method, path>> \in routeKeys THEN <<method, path>> ELSE <<"GET", "/">>

\* routes[routeKey] || routes[`${method} *`] || routes['GET /']
Route(method, path) ==
  IF <<method, path>> \in routeKeys THEN <<method, path>>
  ELSE IF <<method, "*">> \in routeKeys THEN <<method, "*">>
  ELSE <<"GET", "/">>

\* ------------------------------------------------------ the scripted client
\* The three requests of the concrete scenario, sent one after the other as
\* the first requests of a run.
Script ==
  <<[method |-> "POST", path |-> "/register",
     body |-> [name |-> "alice", password |-> "secret1", email |-> ""]],
    [method |-> "POST", path |-> "/login",
     body |-> [name |-> "alice", password |-> "wrong"]],
    [method |-> "POST", path |-> "/login",
     body |-> [name |-> "alice", password |-> "secret1"]]>>

ScenarioOff == [next |-> 0, pending |-> FALSE, out |-> <<>>]

\* A request arrives: the run stays in the scenario iff it is the script's
\* next request and every earlier request was the script's and was answered.
Arrive(sc, request) ==
  IF /\ sc.next \in 1..Len(Script)
     /\ ~sc.pending
     /\ served = sc.next - 1
     /\ request = Script[sc.next]
  THEN [sc EXCEPT !.pending = TRUE]
  ELSE ScenarioOff

\* A request is answered: within the scenario the answer is recorded.
Answer(sc, response) ==
  IF sc.pending
  THEN [next |-> sc.next + 1, pending |-> FALSE, out |-> Append(sc.out, response)]
  ELSE sc

\* ------------------------------------------------------------------ startup
Init ==
  /\ main = "testConnection"
  /\ connected = FALSE
  /\ tableExists = FALSE
  /\ user = {}
  /\ autoInc = 1
  /\ pc = [r \in Slots |-> "idle"]
  /\ req = [r \in Slots |-> None]
  /\ loc = [r \in Slots |-> None]
  /\ res = [r \in Slots |-> None]
  /\ served = 0
  /\ hist = [r \in Slots |-> [prior |-> {}, fresh |-> FALSE, clash |-> FALSE]]
  /\ scenario = [next |-> 1, pending |-> FALSE, out |-> <<>>]

requestVars == <<pc, req, loc, res, served, hist, scenario>>

\* testConnection: pool.getConnection() succeeds, or the process exits.
testConnection ==
  /\ main = "testConnection"
  /\ \/ main' = "initDatabase" /\ connected' = TRUE
     \/ main' = "exited" /\ connected' = FALSE
  /\ UNCHANGED <<storeVars, requestVars>>

\* initDatabase: CREATE TABLE IF NOT EXISTS; a failure is logged and swallowed.
initDatabase ==
  /\ main = "initDatabase"
  /\ main' = "listen"
  /\ \/ tableExists' = TRUE
     \/ tableExists' = tableExists
  /\ UNCHANGED <<connected, user, autoInc, requestVars>>

\* server.listen(PORT)
listen ==
  /\ main = "listen"
  /\ main' = "listening"
  /\ UNCHANGED <<connected, storeVars, requestVars>>

\* ------------------------------------------------------- request plumbing
InFlight(r) == pc[r] \notin {"idle", "done"}

\* http.createServer listener: a request arrives on a free slot and is routed.
\* hist notes which answered requests it follows and whether the name it
\* carries is free on arrival.
Dispatch(r, key, method, path, body) ==
  /\ main = "listening"
  /\ ~InFlight(r)
  /\ served < MaxRequests
  /\ Route(method, path) = key
  /\ served' = served + 1
  /\ req' = [req EXCEPT ![r] = [method |-> method, path |-> path, body |-> body]]
  /\ hist' = [s \in Slots |->
       IF s = r
       THEN [prior |-> {t \in Slots \ {r} : pc[t] = "done"},
             fresh |-> "name" \in DOMAIN body /\ ~DuplicateEntry(body.name),
             clash |-> FALSE]
       ELSE [hist[s] EXCEPT !.prior = @ \ {r}]]

\* The handler answers and ends.
Respond(r, response, local, sc) ==
  /\ res' = [res EXCEPT ![r] = response]
  /\ pc' = [pc EXCEPT ![r] = "done"]
  /\ loc' = [loc EXCEPT ![r] = local]
  /\ scenario' = Answer(sc, response)

\* The handler suspends at an await, keeping `local`.
Await(r, label, local, sc) ==
  /\ pc' = [pc EXCEPT ![r] = label]
  /\ loc' = [loc EXCEPT ![r] = local]
  /\ res' = [res EXCEPT ![r] = None]
  /\ scenario' = sc

\* --------------------------------------------------------------- handlers
\* routes['OPTIONS *']
Preflight(r) ==
  /\ \E method \in Methods, path \in Paths :
       /\ Dispatch(r, <<"OPTIONS", "*">>, method, path, NoBody)
       /\ Respond(r, sendResponse(200, "", "text/plain"), None, Arrive(scenario, req'[r]))
  /\ UNCHANGED <<startVars, storeVars>>

\* routes['GET /']
Landing(r) ==
  /\ \E method \in Methods, path \in Paths :
       /\ Dispatch(r, <<"GET", "/">>, method, path, NoBody)
       /\ Respond(r, sendResponse(200, LandingHtml, "text/html"), None, Arrive(scenario, req'[r]))
  /\ UNCHANGED <<startVars, storeVars>>

RegisterBodies ==
  {Malformed} \cup
  {[name |-> n, password |-> p, email |-> e] :
     n \in Names, p \in Passwords, e \in RegisterEmails}

\* The answer of a handler whose parseBody rejects: its catch block.
BodyRejected == InternalError

\* routes['POST /register'], up to the first store call
RegisterValidated(r, body, sc) ==
  IF body = Malformed THEN Respond(r, BodyRejected, None, sc)
  ELSE IF body.name = "" \/ body.password = ""
    THEN Respond(r, Json(400, [success |-> FALSE, error |-> "Name and password required"]),
                 None, sc)
  ELSE IF Len(body.password) < MinPasswordLength
    THEN Respond(r, Json(400, [success |-> FALSE,
                               error |-> "Password must be at least 6 characters"]),
                 None, sc)
  ELSE Await(r, "register_select", None, sc)

RegisterParse(r) ==
  /\ \E body \in RegisterBodies :
       /\ Dispatch(r, <<"POST", "/register">>, "POST", "/register", body)
       /\ RegisterValidated(r, body, Arrive(scenario, req'[r]))
  /\ UNCHANGED <<startVars, storeVars>>

\* The pre-check, were it to go on to the INSERT whatever the SELECT returned.
RegisterPreCheckIgnored(r, name) ==
  IF ~tableExists THEN Respond(r, InternalError, None, scenario)
  ELSE Await(r, "register_hash", None, scenario)

\* const [existing] = await pool.execute('SELECT id FROM user WHERE name = ?')
RegisterPreCheck(r, name) ==
  IF ~tableExists THEN Respond(r, InternalError, None, scenario)
  ELSE IF Cardinality(SelectIdByName(name)) > 0
    THEN Respond(r, Json(409, [success |-> FALSE, error |-> "Username already exists"]),
                 None, scenario)
  ELSE Await(r, "register_hash", None, scenario)

RegisterSelect(r) ==
  /\ pc[r] = "register_select"
  /\ RegisterPreCheck(r, req[r].body.name)
  /\ UNCHANGED <<startVars, storeVars, req, served, hist>>

\* const hashedPassword = await bcrypt.hash(password, 12)
RegisterHash(r) ==
  /\ pc[r] = "register_hash"
  /\ \E salt \in Salts :
       Await(r, "register_insert", hash(req[r].body.password, salt), scenario)
  /\ UNCHANGED <<startVars, storeVars, req, served, hist>>

\* The 201 answer, were the new id sent in a field named id.
CreatedAsId(insertId) ==
  Json(201, [success |-> TRUE, message |-> "Account created", id |-> insertId])

\* The 201 answer of register.
Created(insertId) ==
  Json(201, [success |-> TRUE, message |-> "Account created", userId |-> insertId])

\* The answer of register when the INSERT throws: its catch block.
InsertFailed == InternalError

\* email || null
EmailOrNull(email) == IF email = "" THEN NULL ELSE email

\* Registrations of `name` in flight in other slots: their name is taken now.
Clashing(r, name) ==
  [s \in Slots |->
     IF s # r /\ InFlight(s) /\ "name" \in DOMAIN req[s].body /\ req[s].body.name = name
     THEN [hist[s] EXCEPT !.clash = TRUE]
     ELSE hist[s]]

\* await pool.execute('INSERT INTO user ...'); then 201, or the catch block
RegisterInsert(r) ==
  /\ pc[r] = "register_insert"
  /\ LET b == req[r].body
     IN IF ~tableExists
          THEN /\ Respond(r, InternalError, loc[r], scenario)
               /\ UNCHANGED <<user, autoInc, hist>>
        ELSE IF DuplicateEntry(b.name)
          THEN /\ Respond(r, InsertFailed, loc[r], scenario)
               /\ UNCHANGED <<user, hist>>
               \* InnoDB may or may not hand the reserved id back
               /\ autoInc' \in {autoInc, autoInc + 1}
        ELSE /\ Respond(r, Created(autoInc), loc[r], scenario)
             /\ user' = user \cup {InsertedRow(b.name, loc[r], EmailOrNull(b.email))}
             /\ autoInc' = autoInc + 1
             /\ hist' = Clashing(r, b.name)
  /\ UNCHANGED <<startVars, tableExists, req, served>>

LoginBodies ==
  {Malformed} \cup {[name |-> n, password |-> p] : n \in Names, p \in Passwords}

\* routes['POST /login'], up to the first store call
LoginValidated(r, body, sc) ==
  IF body = Malformed THEN Respond(r, BodyRejected, None, sc)
  ELSE IF body.name = "" \/ body.password = ""
    THEN Respond(r, Json(400, [success |-> FALSE, error |-> "Name and password required"]),
                 None, sc)
  ELSE Await(r, "login_select", None, sc)

LoginParse(r) ==
  /\ \E body \in LoginBodies :
       /\ Dispatch(r, <<"POST", "/login">>, "POST", "/login", body)
       /\ LoginValidated(r, body, Arrive(scenario, req'[r]))
  /\ UNCHANGED <<startVars, storeVars>>

\* The answer to an unknown name, were it to say so.
UnknownNameRevealed == Json(401, [success |-> FALSE, error |-> "User not found"])

\* The 401 answer of login when no row has the name.
UnknownName == Json(401, [success |-> FALSE, error |-> "Invalid credentials"])

\* The 401 answer of login when bcrypt.compare says no.
WrongPassword == Json(401, [success |-> FALSE, error |-> "Invalid credentials"])

\* The 200 answer of login.
LoggedIn(id) ==
  Json(200, [success |-> TRUE, message |-> "Login successful", userId |-> id])

\* const [users] = await pool.execute('SELECT id, password FROM user WHERE name = ?')
\* const user = users[0]
LoginLookup(r, name) ==
  IF ~tableExists THEN Respond(r, InternalError, None, scenario)
  ELSE IF SelectIdPasswordByName(name) = {} THEN Respond(r, UnknownName, None, scenario)
  ELSE \E u \in SelectIdPasswordByName(name) : Await(r, "login_compare", u, scenario)

LoginSelect(r) ==
  /\ pc[r] = "login_select"
  /\ LoginLookup(r, req[r].body.name)
  /\ UNCHANGED <<startVars, storeVars, req, served, hist>>

\* const match = await bcrypt.compare(password, user.password)
LoginVerdict(password, u) ==
  IF ~compare(password, u.password) THEN WrongPassword ELSE LoggedIn(u.id)

LoginCompare(r) ==
  /\ pc[r] = "login_compare"
  /\ Respond(r, LoginVerdict(req[r].body.password, loc[r]), loc[r], scenario)
  /\ UNCHANGED <<startVars, storeVars, req, served, hist>>

\* routes['GET /users'], up to the store call
UsersStart(r) ==
  /\ Dispatch(r, <<"GET", "/users">>, "GET", "/users", NoBody)
  /\ Await(r, "users_select", None, Arrive(scenario, req'[r]))
  /\ UNCHANGED <<startVars, storeVars>>

\* The answer of GET /users.
Listing == Json(200, [success |-> TRUE, users |-> SelectAll])

UsersSelect(r) ==
  /\ pc[r] = "users_select"
  /\ Respond(r, IF ~tableExists THEN InternalError ELSE Listing, None, scenario)
  /\ UNCHANGED <<startVars, storeVars, req, served, hist>>

DeleteBodies == {Malformed} \cup {[id |-> i] : i \in Ids}

\* routes['DELETE /user'], up to the store call
DeleteValidated(r, body, sc) ==
  IF body = Malformed THEN Respond(r, BodyRejected, None, sc)
  ELSE IF body.id = 0
    THEN Respond(r, Json(400, [success |-> FALSE, error |-> "User ID required"]), None, sc)
  ELSE Await(r, "delete_exec", None, sc)

DeleteParse(r) ==
  /\ \E body \in DeleteBodies :
       /\ Dispatch(r, <<"DELETE", "/user">>, "DELETE", "/user", body)
       /\ DeleteValidated(r, body, Arrive(scenario, req'[r]))
  /\ UNCHANGED <<startVars, storeVars>>

NotFound == Json(404, [success |-> FALSE, error |-> "User not found"])

\* The answer of DELETE /user after the statement ran.
DeleteAnswer(affectedRows) ==
  IF affectedRows = 0 THEN NotFound
  ELSE Json(200, [success |-> TRUE, message |-> "User deleted"])

\* await pool.execute('DELETE FROM user WHERE id = ?')
DeleteExec(r) ==
  /\ pc[r] = "delete_exec"
  /\ IF ~tableExists THEN Respond(r, InternalError, None, scenario) /\ user' = user
     ELSE /\ Respond(r, DeleteAnswer(AffectedRows(req[r].body.id)), None, scenario)
          /\ user' = AfterDelete(req[r].body.id)
  /\ UNCHANGED <<startVars, tableExists, autoInc, req, served, hist>>

PutBodies == {Malformed} \cup {[id |-> i, email |-> e] : i \in Ids, e \in NewEmails}

\* routes['PUT /user'], up to the store call
PutValidated(r, body, sc) ==
  IF body = Malformed THEN Respond(r, BodyRejected, None, sc)
  ELSE IF body.id = 0 \/ body.email = ""
    THEN Respond(r, Json(400, [success |-> FALSE, error |-> "ID and new email required"]),
                 None, sc)
  ELSE Await(r, "put_exec", None, sc)

PutParse(r) ==
  /\ \E body \in PutBodies :
       /\ Dispatch(r, <<"PUT", "/user">>, "PUT", "/user", body)
       /\ PutValidated(r, body, Arrive(scenario, req'[r]))
  /\ UNCHANGED <<startVars, storeVars>>

\* The answer of PUT /user after the statement ran.
PutAnswer(affectedRows) ==
  IF affectedRows = 0 THEN NotFound
  ELSE Json(200, [success |-> TRUE, message |-> "Email updated"])

\* await pool.execute('UPDATE user SET email = ? WHERE id = ?')
PutExec(r) ==
  /\ pc[r] = "put_exec"
  /\ IF ~tableExists THEN Respond(r, InternalError, None, scenario) /\ user' = user
     ELSE /\ Respond(r, PutAnswer(AffectedRows(req[r].body.id)), None, scenario)
          /\ user' = AfterUpdate(req[r].body.id, req[r].body.email)
  /\ UNCHANGED <<startVars, tableExists, autoInc, req, served, hist>>

Next ==
  \/ testConnection
  \/ initDatabase
  \/ listen
  \/ \E r \in Slots : Preflight(r)
  \/ \E r \in Slots : Landing(r)
  \/ \E r \in Slots : RegisterParse(r)
  \/ \E r \in Slots : RegisterSelect(r)
  \/ \E r \in Slots : RegisterHash(r)
  \/ \E r \in Slots : RegisterInsert(r)
  \/ \E r \in Slots : LoginParse(r)
  \/ \E r \in Slots : LoginSelect(r)
  \/ \E r \in Slots : LoginCompare(r)
  \/ \E r \in Slots : UsersStart(r)
  \/ \E r \in Slots : UsersSelect(r)
  \/ \E r \in Slots : DeleteParse(r)
  \/ \E r \in Slots : DeleteExec(r)
  \/ \E r \in Slots : PutParse(r)
  \/ \E r \in Slots : PutExec(r)

Spec == Init /\ [][Next]_vars

\* ================================================================= claims
Done(r) == pc[r] = "done"

\* Slot r holds a request for `method path`.
Is(r, method, path) ==
  pc[r] # "idle" /\ req[r].method = method /\ req[r].path = path

\* Slot r holds a POST /register whose body passes both validations.
ValidRegister(r) ==
  /\ Is(r, "POST", "/register")
  /\ req[r].body # Malformed
  /\ req[r].body.name # ""
  /\ Len(req[r].body.password) >= 6

\* Slot r holds a POST /login with a non-empty name and password.
ValidLogin(r) ==
  /\ Is(r, "POST", "/login")
  /\ req[r].body # Malformed
  /\ req[r].body.name # ""
  /\ req[r].body.password # ""

\* The answered requests in slots r1 and r2 overlapped in time.
Concurrent(r1, r2) == r1 \notin hist[r2].prior /\ r2 \notin hist[r1].prior

RowsNamed(name) == {u \in user : u.name = name}

\* C1: two POST /register for one name, both with a valid password, that run
\* concurrently against a table without that name (and nothing else running)
\* end with one answered 201 and the other 409, and one row for the name.
C1_RacingRegistersOne201One409 ==
  \A r1, r2 \in Slots :
    ( /\ r1 # r2
      /\ tableExists
      /\ Done(r1) /\ Done(r2)
      /\ ValidRegister(r1) /\ ValidRegister(r2)
      /\ req[r1].body.name = req[r2].body.name
      /\ hist[r1].fresh /\ hist[r2].fresh
      /\ Concurrent(r1, r2)
      /\ \A r3 \in Slots \ {r1, r2} : pc[r3] = "idle" )
    => /\ {res[r1].status, res[r2].status} = {201, 409}
       /\ Cardinality(RowsNamed(req[r1].body.name)) = 1

\* C2: the server is listening only if the connectivity check succeeded and
\* the user table exists.
C2_ListenOnlyWithSchema ==
  main = "listening" => connected /\ tableExists

\* C3: a request to a body-reading handler whose body is not well-formed JSON
\* is answered with a 4xx status.  (That it leaves the table unchanged is the
\* UNCHANGED storeVars of the four parse steps.)
C3_MalformedBodyIsClientError ==
  \A r \in Slots :
    (Done(r) /\ req[r].body = Malformed) => res[r].status \in 400..499

\* C4: a POST /register with a valid password, for a name that is not in the
\* table from its arrival on, is answered 201 with a positive integer id; a
\* later login with the same name and password, that user not deleted, is
\* answered 200 with the same id.
C4_RegisterThenLogin ==
  \A r1 \in Slots :
    (tableExists /\ Done(r1) /\ ValidRegister(r1)) =>
      /\ (hist[r1].fresh /\ ~hist[r1].clash) =>
            /\ res[r1].status = 201
            /\ res[r1].body.userId \in Nat \ {0}
      /\ res[r1].status = 201 =>
           \A r2 \in Slots :
             ( /\ Done(r2) /\ ValidLogin(r2)
               /\ r1 \in hist[r2].prior
               /\ req[r2].body.name = req[r1].body.name
               /\ req[r2].body.password = req[r1].body.password
               /\ \E u \in user : u.id = res[r1].body.userId )
             => /\ res[r2].status = 200
                /\ res[r2].body.userId = res[r1].body.userId

C4_Witness ==
  \E r1, r2 \in Slots :
    /\ tableExists /\ Done(r1) /\ ValidRegister(r1)
    /\ hist[r1].fresh /\ ~hist[r1].clash /\ res[r1].status = 201
    /\ Done(r2) /\ ValidLogin(r2) /\ r1 \in hist[r2].prior
    /\ req[r2].body.name = req[r1].body.name
    /\ req[r2].body.password = req[r1].body.password
    /\ \E u \in user : u.id = res[r1].body.userId
    /\ res[r2].status = 200

\* C5: no two rows of the table share a name; and a POST /register answered
\* 201 followed, its row still there, by a second valid POST /register for the
\* same name has the second answered 409 and one row for that name.
C5_SecondRegisterIs409 ==
  /\ \A u, v \in user : u.name = v.name => u = v
  /\ \A r1, r2 \in Slots :
       ( /\ r1 # r2 /\ tableExists
         /\ Done(r1) /\ ValidRegister(r1) /\ res[r1].status = 201
         /\ Done(r2) /\ ValidRegister(r2)
         /\ r1 \in hist[r2].prior
         /\ req[r2].body.name = req[r1].body.name
         /\ \E u \in user : u.id = res[r1].body.userId )
       => /\ res[r2].status = 409
          /\ Cardinality(RowsNamed(req[r1].body.name)) = 1

C5_Witness ==
  \E r1, r2 \in Slots :
    /\ r1 # r2 /\ tableExists
    /\ Done(r1) /\ ValidRegister(r1) /\ res[r1].status = 201
    /\ Done(r2) /\ ValidRegister(r2)
    /\ r1 \in hist[r2].prior
    /\ req[r2].body.name = req[r1].body.name
    /\ res[r2].status = 409
    /\ Cardinality(user) = 1

\* A login that failed because no row had the name: it never fetched a user.
FailedUnknownName(r) ==
  Done(r) /\ ValidLogin(r) /\ loc[r] = None

\* A login that failed because the password did not match the fetched user.
FailedWrongPassword(r) ==
  /\ Done(r) /\ ValidLogin(r) /\ loc[r] # None
  /\ ~compare(req[r].body.password, loc[r].password)

\* C6: a login failing on an unknown name and a login failing on a wrong
\* password are both answered 401, with identical bodies.
C6_LoginFailuresIndistinguishable ==
  tableExists =>
    \A r1, r2 \in Slots :
      (FailedUnknownName(r1) /\ FailedWrongPassword(r2)) =>
        /\ res[r1].status = 401 /\ res[r2].status = 401
        /\ res[r1].body = res[r2].body
        /\ res[r1].contentType = res[r2].contentType

C6_Witness ==
  /\ tableExists
  /\ \E r1, r2 \in Slots :
       /\ FailedUnknownName(r1) /\ FailedWrongPassword(r2)
       /\ res[r1].status = 401 /\ res[r2].status = 401

\* Slot r takes the step that runs its statement at `label` and answers.
Executes(r, label) == pc[r] = label /\ pc'[r] = "done" /\ tableExists

ListedIds(response) == {x.id : x \in response.body.users}

\* C7: the DELETE of an id no row has is answered 404 and changes no row; the
\* DELETE of an existing id is answered 200 and removes that row and no other;
\* a GET /users that reads the table after a DELETE was answered 200 does not
\* list the deleted id.
C7_DeleteFrame ==
  [][ /\ \A r \in Slots : Executes(r, "delete_exec") =>
           LET hit == {u \in user : u.id = req[r].body.id}
           IN IF hit = {}
                THEN res'[r].status = 404 /\ user' = user
                ELSE /\ res'[r].status = 200
                     /\ Cardinality(hit) = 1
                     /\ user' = user \ hit
      /\ \A r2 \in Slots : Executes(r2, "users_select") =>
           /\ res'[r2].status = 200
           /\ \A r1 \in Slots :
                (Done(r1) /\ Is(r1, "DELETE", "/user") /\ res[r1].status = 200)
                => req[r1].body.id \notin ListedIds(res'[r2])
    ]_vars

C7_Witness ==
  \E r1 \in Slots :
    /\ tableExists
    /\ Done(r1) /\ Is(r1, "DELETE", "/user") /\ res[r1].status = 200
    /\ Cardinality(user) = 1
    /\ \A u \in user : u.id # req[r1].body.id

\* C8: the PUT of an id no row has is answered 404 and changes no row; the PUT
\* of an existing id with a non-empty email is answered 200 and changes that
\* row's email and nothing else; a GET /users that reads the table after a PUT
\* was answered 200 lists that row with the new email while the row still
\* carries it.
C8_PutFrame ==
  [][ /\ \A r \in Slots : Executes(r, "put_exec") =>
           LET id == req[r].body.id
               hit == {u \in user : u.id = id}
           IN IF hit = {}
                THEN res'[r].status = 404 /\ user' = user
                ELSE /\ res'[r].status = 200
                     /\ Cardinality(user') = Cardinality(user)
                     /\ \A v \in user : v.id # id => v \in user'
                     /\ \A u \in hit : \E w \in user' :
                          /\ w.id = u.id /\ w.name = u.name
                          /\ w.password = u.password /\ w.created_at = u.created_at
                          /\ w.email = req[r].body.email
      /\ \A r2 \in Slots : Executes(r2, "users_select") =>
           \A r1 \in Slots :
             ( /\ Done(r1) /\ Is(r1, "PUT", "/user") /\ res[r1].status = 200
               /\ \E u \in user : u.id = req[r1].body.id /\ u.email = req[r1].body.email )
             => \E x \in res'[r2].body.users :
                  x.id = req[r1].body.id /\ x.email = req[r1].body.email
    ]_vars

C8_Witness ==
  \E r1, r2 \in Slots :
    /\ tableExists /\ Cardinality(user) = 2
    /\ Done(r1) /\ Is(r1, "PUT", "/user") /\ res[r1].status = 200
    /\ \E u \in user : u.id = req[r1].body.id /\ u.email = req[r1].body.email
    /\ \E v \in user : v.id # req[r1].body.id /\ v.email # req[r1].body.email

\* The pc labels of the handler registered under each key of routes.
LabelsOf(key) ==
  IF key = <<"POST", "/register">>
    THEN {"register_select", "register_hash", "register_insert"}
  ELSE IF key = <<"POST", "/login">> THEN {"login_select", "login_compare"}
  ELSE IF key = <<"GET", "/users">> THEN {"users_select"}
  ELSE IF key = <<"DELETE", "/user">> THEN {"delete_exec"}
  ELSE IF key = <<"PUT", "/user">> THEN {"put_exec"}
  ELSE {}

ExactKeys ==
  {<<"POST", "/register">>, <<"POST", "/login">>, <<"GET", "/users">>,
   <<"DELETE", "/user">>, <<"PUT", "/user">>, <<"GET", "/">>}

IsLandingPage(response) ==
  response.status = 200 /\ response.contentType = "text/html" /\ response.body = LandingHtml

\* C9: a request is served by the handler of its exact "METHOD path" key if
\* there is one; otherwise, an OPTIONS request is answered 200 with an empty
\* body; otherwise it is answered 200 with the landing page, never 404.
C9_RoutePrecedence ==
  \A r \in Slots : pc[r] # "idle" =>
    LET key == <<req[r].method, req[r].path>>
    IN IF key = <<"GET", "/">> THEN Done(r) /\ IsLandingPage(res[r])
       ELSE IF key \in ExactKeys
         THEN \/ pc[r] \in LabelsOf(key)
              \/ Done(r) /\ res[r].contentType = "application/json"
       ELSE IF req[r].method = "OPTIONS"
         THEN Done(r) /\ res[r].status = 200 /\ res[r].body = ""
       ELSE Done(r) /\ IsLandingPage(res[r]) /\ res[r].status # 404

C9_Witness ==
  \E r1, r2 \in Slots :
    /\ Done(r1) /\ req[r1].method = "OPTIONS" /\ req[r1].path = "/user"
    /\ res[r1].status = 200 /\ res[r1].body = ""
    /\ Done(r2) /\ req[r2].method = "DELETE" /\ req[r2].path = "/nope"
    /\ IsLandingPage(res[r2])

\* The run so far is the scenario: from the new, empty table, the requests of
\* Script, each sent after the answer to the one before.
ScenarioDone == tableExists /\ scenario.next = Len(Script) + 1

====
